---- MODULE Spec2Model ----
(***************************************************************************)
(* Model of streamlit_investor_app.py: a Streamlit script that emits a     *)
(* fixed sequence of display calls, one generator of four synthetic series *)
(* (seeded global random generator, running sum, rescale to a target) and  *)
(* three chart builders.                                                   *)
(*                                                                         *)
(* Numbers.  numpy floats are modelled exactly: the increments are         *)
(* integers, a quotient is a reduced fraction, and a division by zero      *)
(* gives nan or +/-inf as numpy does (a warning, no exception).            *)
(* Display literals such as '186.8%' are decimals: mantissa and scale.     *)
(***************************************************************************)
EXTENDS Integers, Sequences, FiniteSets, TLC

VARIABLES
    pc,                 \* index of the next statement of the script run
    run,                \* number of the current script run (page load)
    out,                \* display-host calls received in this run, in order
    calls,              \* functions of the script called in this run, in order
    rng,                \* state of the process-global numpy generator
    performance_data,   \* local of main(): the generated frame
    performance_fig,    \* local of main()
    drawdown_fig,       \* local of main()
    radar_fig,          \* local of main()
    raised,             \* an exception ended the run
    rngAtStart,         \* history: rng when the current run started
    returned,           \* history: every generator call of the process,
                        \* the rng it started from and the frame it returned
    incs,               \* input of the series computation (SpecSeries)
    target,             \* input of the series computation (SpecSeries)
    series              \* output of the series computation (SpecSeries)

vars == <<pc, run, out, calls, rng, performance_data, performance_fig,
          drawdown_fig, radar_fig, raised, rngAtStart, returned,
          incs, target, series>>

None == [kind |-> "none"]

----------------------------------------------------------------------------
(* Bounds of the model *)

MaxRuns == 2        \* script runs (page loads) of one server process
RngMod  == 13       \* size of the state space of the modelled generator
MaxLen  == 3        \* SpecSeries: longest increment vector
MaxInc  == 2        \* SpecSeries: increments range over -MaxInc..MaxInc

----------------------------------------------------------------------------
(* Float arithmetic of numpy, exact.  A finite value is sign * (w + n/d),  *)
(* n/d a proper fraction in lowest terms, zero with sign 1.                *)

Abs(x) == IF x < 0 THEN -x ELSE x
Sign(x) == IF x < 0 THEN -1 ELSE 1

RECURSIVE Gcd(_, _)
Gcd(a, b) == IF b = 0 THEN a ELSE Gcd(b, a % b)

\* sign * (w + n/d) for w, n >= 0 and d > 0, in canonical form
Fin(sign, w, n, d) ==
    LET g == Gcd(n, d)
    IN  [kind |-> "fin",
         sign |-> IF w = 0 /\ n = 0 THEN 1 ELSE sign,
         w    |-> w + n \div d,
         n    |-> (n % d) \div g,
         d    |-> d \div g]

Number(k) == Fin(Sign(k), Abs(k), 0, 1)

NaN == [kind |-> "nan", sign |-> 1, w |-> 0, n |-> 0, d |-> 0]
Inf(sign) == [kind |-> "inf", sign |-> sign, w |-> 0, n |-> 0, d |-> 0]

\* a / b on float64: x / 0 is nan for x = 0 and +/-inf otherwise
FDiv(a, b) ==
    IF b # 0 THEN Fin(Sign(a) * Sign(b), 0, Abs(a), Abs(b))
    ELSE IF a = 0 THEN NaN
    ELSE Inf(Sign(a))

\* quotient and remainder of x * t by m, one decimal digit of t at a time
RECURSIVE MulDiv(_, _, _)
MulDiv(x, t, m) ==
    IF t = 0 THEN [q |-> 0, r |-> 0]
    ELSE LET p == MulDiv(x, t \div 10, m)
             v == 10 * p.r + x * (t % 10)
         IN  [q |-> 10 * p.q + v \div m, r |-> v % m]

\* f * t for a float f and a positive number t; nan and inf stay
FMul(f, t) ==
    IF f.kind = "fin"
    THEN LET p == MulDiv(f.n, t, f.d)
         IN  Fin(f.sign, f.w * t + p.q, p.r, f.d)
    ELSE f

----------------------------------------------------------------------------
(* np.cumsum and the rescaling of one series *)

\* s[lo] + ... + s[hi]
RECURSIVE SumRange(_, _, _)
SumRange(s, lo, hi) ==
    IF lo > hi THEN 0
    ELSE IF lo = hi THEN s[lo]
    ELSE LET mid == (lo + hi) \div 2
         IN  SumRange(s, lo, mid) + SumRange(s, mid + 1, hi)

\* np.cumsum
cumsum(s) == [i \in 1..Len(s) |-> SumRange(s, 1, i)]

RescaleByFirst(x, t) == [i \in 1..Len(x) |-> FMul(FDiv(x[i], x[1]), t)]

\* x / x[-1] * t, elementwise
Rescale(x, t) == [i \in 1..Len(x) |-> FMul(FDiv(x[i], x[Len(x)]), t)]

\* one series: cumsum of the increments, rescaled to the target
Series(increments, t) == Rescale(cumsum(increments), t)

----------------------------------------------------------------------------
(* Calendar: pd.date_range(start, end, freq='B')[:n] *)

Date(y, m, d) == [y |-> y, m |-> m, d |-> d]

\* days since 1970-01-01 of a civil date
ordinal(dt) ==
    LET y   == IF dt.m <= 2 THEN dt.y - 1 ELSE dt.y
        era == y \div 400
        yoe == y - era * 400
        mp  == IF dt.m > 2 THEN dt.m - 3 ELSE dt.m + 9
        doy == (153 * mp + 2) \div 5 + dt.d - 1
        doe == yoe * 365 + yoe \div 4 - yoe \div 100 + doy
    IN  era * 146097 + doe - 719468

\* the civil date of a day number
civil(z) ==
    LET k   == z + 719468
        era == k \div 146097
        doe == k - era * 146097
        yoe == (doe - doe \div 1460 + doe \div 36524 - doe \div 146096) \div 365
        doy == doe - (365 * yoe + yoe \div 4 - yoe \div 100)
        mp  == (5 * doy + 2) \div 153
        d   == doy - (153 * mp + 2) \div 5 + 1
        m   == IF mp < 10 THEN mp + 3 ELSE mp - 9
        y   == yoe + era * 400
    IN  Date(IF m <= 2 THEN y + 1 ELSE y, m, d)

\* Monday = 0 ... Sunday = 6 (1970-01-01 was a Thursday)
weekday(dt) == (ordinal(dt) + 3) % 7

\* the day numbers of S as dates, ascending
Ascending(S) ==
    [i \in 1..Cardinality(S) |->
        civil(CHOOSE z \in S : Cardinality({y \in S : y < z}) = i - 1)]

date_range_calendar(start, end) == Ascending(ordinal(start)..ordinal(end))

\* freq='B': the business days (Monday to Friday) of start..end, ascending
date_range(start, end) ==
    Ascending({z \in ordinal(start)..ordinal(end) : weekday(civil(z)) < 5})

\* s[:n]
Head_n(s, n) == SubSeq(s, 1, IF Len(s) < n THEN Len(s) ELSE n)

----------------------------------------------------------------------------
(* The process-global generator behind np.random.seed / np.random.normal.  *)
(* It is a deterministic state machine; its transition function is one of  *)
(* a family of congruential generators, fixed when the process starts.     *)

Multipliers == {1, 5}
Increments  == {1, 3}

RngStates == [mult : Multipliers, inc : Increments, s : 0..(RngMod - 1)]

seed_ignored(r, n) == r

\* np.random.seed(n)
seed(r, n) == [r EXCEPT !.s = n % RngMod]

\* a^k and 1 + a + ... + a^(k-1), modulo RngMod
RECURSIVE PowMod(_, _)
PowMod(a, k) ==
    IF k = 0 THEN 1 % RngMod
    ELSE IF k % 2 = 0 THEN (PowMod(a, k \div 2) * PowMod(a, k \div 2)) % RngMod
    ELSE (a * PowMod(a, k - 1)) % RngMod

RECURSIVE GeomMod(_, _)
GeomMod(a, k) ==
    IF k = 0 THEN 0
    ELSE IF k % 2 = 0 THEN ((1 + PowMod(a, k \div 2)) * GeomMod(a, k \div 2)) % RngMod
    ELSE (1 + a * GeomMod(a, k - 1)) % RngMod

\* the standard normal variate a state yields, in whole deviations
gauss(r) == (r.s % 5) - 2

\* the generator after k steps of s -> (mult * s + inc) % RngMod
advance_by(r, k) ==
    [r EXCEPT !.s = (PowMod(r.mult, k) * r.s + r.inc * GeomMod(r.mult, k)) % RngMod]

\* np.random.normal(mu, sigma, n): n variates, one step of the generator
\* each, and the generator afterwards
normal(r, mu, sigma, n) ==
    [vals |-> [i \in 1..n |-> mu + sigma * gauss(advance_by(r, i))],
     rng  |-> advance_by(r, n)]

----------------------------------------------------------------------------
(* generate_performance_data() *)

SEED    == 42
NPoints == 48

StartDate == Date(2025, 9, 1)
EndDate   == Date(2025, 11, 11)

\* mean, standard deviation and target of each series
Params ==
    [Our_Algorithm |-> [mu |-> 2593, sigma |-> 1500, target |-> 124477],
     Bank_Nifty    |-> [mu |-> 390,  sigma |-> 600,  target |-> 18750],
     Nifty_Index   |-> [mu |-> 260,  sigma |-> 400,  target |-> 12500],
     Mutual_Funds  |-> [mu |-> 173,  sigma |-> 250,  target |-> 8333]]

SeriesNames == <<"Our_Algorithm", "Bank_Nifty", "Nifty_Index", "Mutual_Funds">>

dates_with_weekends == Head_n(date_range_calendar(StartDate, EndDate), NPoints)

dates == Head_n(date_range(StartDate, EndDate), NPoints)

\* returns the frame and the generator as the call leaves it
generate_performance_data(r) ==
    LET r0 == seed(r, SEED)
        d1 == normal(r0, Params.Our_Algorithm.mu, Params.Our_Algorithm.sigma, NPoints)
        d2 == normal(d1.rng, Params.Bank_Nifty.mu, Params.Bank_Nifty.sigma, NPoints)
        d3 == normal(d2.rng, Params.Nifty_Index.mu, Params.Nifty_Index.sigma, NPoints)
        d4 == normal(d3.rng, Params.Mutual_Funds.mu, Params.Mutual_Funds.sigma, NPoints)
    IN  [data |-> [Date          |-> dates,
                   Our_Algorithm |-> Series(d1.vals, Params.Our_Algorithm.target),
                   Bank_Nifty    |-> Series(d2.vals, Params.Bank_Nifty.target),
                   Nifty_Index   |-> Series(d3.vals, Params.Nifty_Index.target),
                   Mutual_Funds  |-> Series(d4.vals, Params.Mutual_Funds.target)],
         rng  |-> d4.rng]

----------------------------------------------------------------------------
(* Display literals.  Dec(m, e) is the decimal m / 10^e: '186.8%' is       *)
(* Dec(1868, 1), '4.20' is Dec(420, 2), the rupee amount 124,477 is        *)
(* Dec(124477, 0).                                                         *)

Dec(m, e) == [kind |-> "dec", m |-> m, e |-> e]

RECURSIVE Pow10(_)
Pow10(e) == IF e = 0 THEN 1 ELSE 10 * Pow10(e - 1)

\* equality of two decimals as numbers
DecEq(a, b) == a.m * Pow10(b.e) = b.m * Pow10(a.e)

Local(name) == [kind |-> "local", name |-> name]

Stmt(op, cls, label, val, ctx, line) ==
    [op |-> op, cls |-> cls, label |-> label, val |-> val, ctx |-> ctx, line |-> line]

----------------------------------------------------------------------------
(* The chart builders *)

PerformanceColumnsTypo ==
    <<[col |-> "Our_Algorithm", name |-> "Our Algorithm", mode |-> "lines+markers"],
      [col |-> "Bank_Nifty",    name |-> "Bank Nifty",    mode |-> "lines"],
      [col |-> "Nifty_Index",   name |-> "Nifty Index",   mode |-> "lines"],
      [col |-> "Mutual_Fund",   name |-> "Mutual Funds",  mode |-> "lines"]>>

\* the four add_trace calls: column read, trace name, mode
PerformanceColumns ==
    <<[col |-> "Our_Algorithm", name |-> "Our Algorithm", mode |-> "lines+markers"],
      [col |-> "Bank_Nifty",    name |-> "Bank Nifty",    mode |-> "lines"],
      [col |-> "Nifty_Index",   name |-> "Nifty Index",   mode |-> "lines"],
      [col |-> "Mutual_Funds",  name |-> "Mutual Funds",  mode |-> "lines"]>>

\* data[col] raises KeyError for a column the frame does not have
ColumnsRead == {"Date"} \cup {PerformanceColumns[i].col : i \in DOMAIN PerformanceColumns}

create_performance_chart(data) ==
    IF ~(ColumnsRead \subseteq DOMAIN data)
    THEN [raised |-> TRUE, fig |-> None, data |-> data]
    ELSE [raised |-> FALSE,
          fig |-> [kind   |-> "figure",
                   title  |-> "Cumulative Performance Comparison (Sep - Nov 2025)",
                   traces |-> [i \in DOMAIN PerformanceColumns |->
                                 [type |-> "scatter",
                                  name |-> PerformanceColumns[i].name,
                                  mode |-> PerformanceColumns[i].mode,
                                  x    |-> data["Date"],
                                  y    |-> data[PerformanceColumns[i].col]]]],
          data |-> data]

create_drawdown_chart ==
    [kind   |-> "figure",
     title  |-> "Maximum Drawdown Comparison",
     traces |-> <<[type |-> "bar", name |-> "", mode |-> "",
                   x |-> <<"Our Algorithm", "Bank Nifty", "Nifty Index", "Mutual Funds">>,
                   y |-> <<Dec(196, 1), Dec(123, 1), Dec(85, 1), Dec(62, 1)>>]>>]

create_risk_radar_chart ==
    [kind   |-> "figure",
     title  |-> "Risk Profile Assessment",
     traces |-> <<[type |-> "scatterpolar", name |-> "Our Algorithm", mode |-> "",
                   x |-> <<"Consistency", "Drawdown Control", "Win Rate",
                           "Sharpe Ratio", "Adaptability">>,
                   y |-> <<Dec(85, 0), Dec(90, 0), Dec(75, 0), Dec(85, 0), Dec(95, 0)>>]>>]

----------------------------------------------------------------------------
(* The script, statement by statement.  A statement is a call into the     *)
(* display host (an st call) or a call of one of the script's functions; cls *)
(* is the CSS class of a markdown block, label its heading, val the figure *)
(* it shows, ctx the column of the enclosing with-block.                   *)

TopLevelStyleFirst ==
    <<Stmt("markdown", "style", "", None, "", 24),
      Stmt("set_page_config", "", "Algorithmic Options Hedging Strategy", None, "", 16)>>

\* module level, before main() is called
TopLevel ==
    <<Stmt("set_page_config", "", "Algorithmic Options Hedging Strategy", None, "", 16),
      Stmt("markdown", "style", "", None, "", 24)>>

Headline == Dec(564, 0)

TitlePage ==
    <<Stmt("markdown", "main-header", "OUTPERFORMANCE vs Traditional Market Investments",
           Headline, "", 229)>>

KpiTotalReturnsTypo == Dec(124447, 0)

KpiTotalReturns == Dec(124477, 0)

KeyMetrics ==
    <<Stmt("columns", "", "", Dec(4, 0), "", 241),
      Stmt("markdown", "metric-card", "Total Returns", KpiTotalReturns, "col1", 244),
      Stmt("markdown", "metric-card", "Win Rate", Dec(625, 1), "col2", 253),
      Stmt("markdown", "metric-card", "Annualized Return", Dec(1868, 1), "col3", 262),
      Stmt("markdown", "metric-card", "Sharpe Ratio", Dec(420, 2), "col4", 271),
      Stmt("markdown", "rule", "---", None, "", 279)>>

OutperformanceTruncated ==
    <<Dec(563, 0), Dec(564, 0), Dec(564, 0), Dec(20, 0), Dec(366, 0)>>

\* '+564%', '+565%', '+565%', '+20%', '+367%'
Outperformance ==
    <<Dec(564, 0), Dec(565, 0), Dec(565, 0), Dec(20, 0), Dec(367, 0)>>

comparison_data ==
    [kind |-> "table",
     cols |-> ("Metric" :> <<"Total Returns", "Annualized Return", "Daily Average",
                             "Win Rate", "Sharpe Ratio">>)
           @@ ("Our Algorithm" :> <<Dec(124477, 0), Dec(1868, 1), Dec(2593, 0),
                                    Dec(625, 1), Dec(420, 2)>>)
           @@ ("Best Traditional" :> <<Dec(18750, 0), Dec(281, 1), Dec(390, 0),
                                       Dec(520, 1), Dec(9, 1)>>)
           @@ ("Outperformance" :> Outperformance)]

PerformanceOverviewRegenerates ==
    <<Stmt("header", "", "PERFORMANCE OVERVIEW", None, "", 282),
      Stmt("subheader", "", "Systematic outperformance across all metrics", None, "", 283),
      Stmt("generate_performance_data", "", "", None, "", 286),
      Stmt("create_performance_chart", "", "", Local("performance_data"), "", 287),
      Stmt("generate_performance_data", "", "", None, "", 286),
      Stmt("plotly_chart", "", "", Local("performance_fig"), "", 288),
      Stmt("subheader", "", "Performance Comparison", None, "", 291),
      Stmt("dataframe", "", "", comparison_data, "", 300),
      Stmt("markdown", "rule", "---", None, "", 302)>>

PerformanceOverview ==
    <<Stmt("header", "", "PERFORMANCE OVERVIEW", None, "", 282),
      Stmt("subheader", "", "Systematic outperformance across all metrics", None, "", 283),
      Stmt("generate_performance_data", "", "", None, "", 286),
      Stmt("create_performance_chart", "", "", Local("performance_data"), "", 287),
      Stmt("plotly_chart", "", "", Local("performance_fig"), "", 288),
      Stmt("subheader", "", "Performance Comparison", None, "", 291),
      Stmt("dataframe", "", "", comparison_data, "", 300),
      Stmt("markdown", "rule", "---", None, "", 302)>>

\* 'for advantage in advantages: st.write(...)', one statement per element
Advantages ==
    <<"Built-in Downside Protection", "Volatility Advantage", "Asymmetric Risk-Reward",
      "Market Neutral Capability", "Capital Preservation", "Time Decay Management">>

StrategyMethodology ==
    <<Stmt("header", "", "STRATEGY METHODOLOGY", None, "", 305),
      Stmt("subheader", "", "Proprietary Algorithmic Framework", None, "", 306),
      Stmt("columns", "", "", Dec(2, 0), "", 308),
      Stmt("markdown", "feature-card", "Advanced Pattern Recognition", None, "col1", 311),
      Stmt("markdown", "feature-card", "Options Hedging Protection", None, "col1", 318),
      Stmt("markdown", "feature-card", "Systematic Execution", None, "col2", 326),
      Stmt("markdown", "feature-card", "Multi-Index Options Selection", None, "col2", 333),
      Stmt("subheader", "", "HEDGING STRATEGY ADVANTAGES", None, "", 341)>>
    \o [i \in DOMAIN Advantages |-> Stmt("write", "", Advantages[i], None, "", 353)]
    \o <<Stmt("markdown", "rule", "---", None, "", 355)>>

RiskAnalysis ==
    <<Stmt("header", "", "OPTIONS HEDGING & RISK CONTROLS", None, "", 358),
      Stmt("subheader", "", "Multi-layered protection through strategic hedging", None, "", 359),
      Stmt("columns", "", "", Dec(2, 0), "", 361),
      Stmt("create_drawdown_chart", "", "", None, "col1", 364),
      Stmt("plotly_chart", "", "", Local("drawdown_fig"), "col1", 365),
      Stmt("create_risk_radar_chart", "", "", None, "col2", 368),
      Stmt("plotly_chart", "", "", Local("radar_fig"), "col2", 369),
      Stmt("subheader", "", "Risk Control Framework", None, "", 372),
      Stmt("columns", "", "", Dec(3, 0), "", 374),
      Stmt("markdown", "feature-card", "Options Hedging Protection", None, "col1", 377),
      Stmt("markdown", "feature-card", "Volatility Shield", None, "col1", 384),
      Stmt("markdown", "feature-card", "Dynamic Delta Management", None, "col2", 392),
      Stmt("markdown", "feature-card", "Time Decay Optimization", None, "col2", 399),
      Stmt("markdown", "feature-card", "Correlation Hedging", None, "col3", 407),
      Stmt("markdown", "feature-card", "Tail Risk Protection", None, "col3", 414),
      Stmt("markdown", "rule", "---", None, "", 421)>>

InvestmentOpportunity ==
    <<Stmt("header", "", "INVESTMENT OPPORTUNITY", None, "", 424),
      Stmt("subheader", "", "Exclusive access to algorithmic excellence", None, "", 425),
      Stmt("markdown", "highlight-box", "KEY INVESTMENT HIGHLIGHTS", Dec(564, 0), "", 428),
      Stmt("columns", "", "", Dec(2, 0), "", 457),
      Stmt("markdown", "feature-card", "PERFORMANCE TARGETS", None, "col1", 460),
      Stmt("markdown", "feature-card", "INVESTMENT TERMS", None, "col1", 472),
      Stmt("markdown", "feature-card", "OPERATIONAL EXCELLENCE", None, "col2", 485),
      Stmt("markdown", "feature-card", "COMPETITIVE EDGE", None, "col2", 497)>>

FooterMissing == << >>

Footer ==
    <<Stmt("markdown", "confidential-footer", "CONFIDENTIAL - FOR QUALIFIED INVESTORS ONLY",
           None, "", 510)>>

\* the body of main()
main ==
    TitlePage \o KeyMetrics \o PerformanceOverview \o StrategyMethodology
    \o RiskAnalysis \o InvestmentOpportunity \o Footer

\* run as a script, __name__ is "__main__" and the last statement calls main()
Script == TopLevel \o main

Done == Len(Script) + 1

----------------------------------------------------------------------------
(* The script run *)

Init ==
    /\ pc = 1
    /\ run = 1
    /\ out = << >>
    /\ calls = << >>
    /\ rng \in RngStates            \* numpy seeds it from OS entropy
    /\ performance_data = None
    /\ performance_fig = None
    /\ drawdown_fig = None
    /\ radar_fig = None
    /\ raised = FALSE
    /\ rngAtStart = rng
    /\ returned = << >>
    /\ incs = << >>
    /\ target = 0
    /\ series = << >>

Running == pc \in 1..Len(Script) /\ ~raised

Element(st, val) ==
    [op |-> st.op, cls |-> st.cls, label |-> st.label, val |-> val, ctx |-> st.ctx]

locals == <<performance_data, performance_fig, drawdown_fig, radar_fig>>
seriesVars == <<incs, target, series>>

\* the st calls whose argument is a literal of the script
DisplayOps == {"set_page_config", "markdown", "columns", "header", "subheader",
               "write", "dataframe"}

Display(op) ==
    /\ Running
    /\ Script[pc].op = op
    /\ out' = Append(out, Element(Script[pc], Script[pc].val))
    /\ pc' = pc + 1
    /\ UNCHANGED <<run, calls, rng, locals, raised, rngAtStart, returned, seriesVars>>


LocalValue(name) ==
    CASE name = "performance_data" -> performance_data
      [] name = "performance_fig"  -> performance_fig
      [] name = "drawdown_fig"     -> drawdown_fig
      [] name = "radar_fig"        -> radar_fig

\* st.plotly_chart(fig): embeds the figure a local holds
StPlotlyChart ==
    /\ Running
    /\ Script[pc].op = "plotly_chart"
    /\ out' = Append(out, Element(Script[pc], LocalValue(Script[pc].val.name)))
    /\ pc' = pc + 1
    /\ UNCHANGED <<run, calls, rng, locals, raised, rngAtStart, returned, seriesVars>>

\* performance_data = generate_performance_data()
CallGenerate ==
    /\ Running
    /\ Script[pc].op = "generate_performance_data"
    /\ LET g == generate_performance_data(rng)
       IN  /\ performance_data' = g.data
           /\ rng' = g.rng
           /\ returned' = Append(returned, [before |-> rng, data |-> g.data])
    /\ calls' = Append(calls, "generate_performance_data")
    /\ pc' = pc + 1
    /\ UNCHANGED <<run, out, performance_fig, drawdown_fig, radar_fig, raised,
                   rngAtStart, seriesVars>>

\* performance_fig = create_performance_chart(performance_data); an
\* exception propagates out of main() and ends the run
CallPerformanceChart ==
    /\ Running
    /\ Script[pc].op = "create_performance_chart"
    /\ LET r == create_performance_chart(LocalValue(Script[pc].val.name))
       IN  /\ raised' = r.raised
           /\ performance_fig' = r.fig
           /\ performance_data' = r.data
           /\ pc' = IF r.raised THEN Done ELSE pc + 1
    /\ calls' = Append(calls, "create_performance_chart")
    /\ UNCHANGED <<run, out, rng, drawdown_fig, radar_fig, rngAtStart, returned,
                   seriesVars>>

CallDrawdownChart ==
    /\ Running
    /\ Script[pc].op = "create_drawdown_chart"
    /\ drawdown_fig' = create_drawdown_chart
    /\ calls' = Append(calls, "create_drawdown_chart")
    /\ pc' = pc + 1
    /\ UNCHANGED <<run, out, rng, performance_data, performance_fig, radar_fig,
                   raised, rngAtStart, returned, seriesVars>>

CallRiskRadarChart ==
    /\ Running
    /\ Script[pc].op = "create_risk_radar_chart"
    /\ radar_fig' = create_risk_radar_chart
    /\ calls' = Append(calls, "create_risk_radar_chart")
    /\ pc' = pc + 1
    /\ UNCHANGED <<run, out, rng, performance_data, performance_fig, drawdown_fig,
                   raised, rngAtStart, returned, seriesVars>>

\* the host runs the script again for the next page load, in the same
\* process: the module-level state of numpy stays, the run's locals do not
Rerun ==
    /\ pc = Done
    /\ run < MaxRuns
    /\ pc' = 1
    /\ run' = run + 1
    /\ out' = << >>
    /\ calls' = << >>
    /\ performance_data' = None
    /\ performance_fig' = None
    /\ drawdown_fig' = None
    /\ radar_fig' = None
    /\ raised' = FALSE
    /\ rngAtStart' = rng
    /\ UNCHANGED <<rng, returned, seriesVars>>

Next ==
    \/ \E op \in DisplayOps : Display(op)
    \/ StPlotlyChart
    \/ CallGenerate
    \/ CallPerformanceChart
    \/ CallDrawdownChart
    \/ CallRiskRadarChart
    \/ Rerun

Spec == Init /\ [][Next]_vars

----------------------------------------------------------------------------
(* The series computation on its own: any increment vector the normal      *)
(* distribution can yield (its support is the whole line), any of the four *)
(* targets.                                                                *)

IncrementVectors == UNION {[1..n -> (-MaxInc)..MaxInc] : n \in 1..MaxLen}

TargetsOf == {Params[c].target : c \in DOMAIN Params}

SeriesInit ==
    /\ incs \in IncrementVectors
    /\ target \in TargetsOf
    /\ series = << >>
    /\ pc = Done
    /\ run = MaxRuns
    /\ out = << >>
    /\ calls = << >>
    /\ rng = [mult |-> 1, inc |-> 1, s |-> 0]
    /\ performance_data = None
    /\ performance_fig = None
    /\ drawdown_fig = None
    /\ radar_fig = None
    /\ raised = FALSE
    /\ rngAtStart = rng
    /\ returned = << >>

ComputeSeries ==
    /\ series = << >>
    /\ series' = Series(incs, target)
    /\ UNCHANGED <<pc, run, out, calls, rng, locals, raised, rngAtStart, returned,
                   incs, target>>

SeriesNext == ComputeSeries

SpecSeries == SeriesInit /\ [][SeriesNext]_vars

----------------------------------------------------------------------------
(* Properties *)

Last(q) == q[Len(q)]

IsPrefix(a, b) == Len(a) <= Len(b) /\ SubSeq(b, 1, Len(a)) = a

\* the elements of q that satisfy Test, in order
Indices(q, Test(_)) == {i \in DOMAIN q : Test(q[i])}
Rank(S, i) == Cardinality({j \in S : j < i}) + 1
Nth(S, k) == CHOOSE i \in S : Rank(S, i) = k

FinalSum == SumRange(incs, 1, Len(incs))

C2_Deterministic ==
    \A i, j \in DOMAIN returned : returned[i].data = returned[j].data

C2_Witness ==
    /\ Len(returned) >= 2
    /\ returned[1].before # returned[2].before
    /\ returned[1].data = returned[2].data

NextBusinessDay(dt) ==
    civil(ordinal(dt) + (IF weekday(dt) = 4 THEN 3 ELSE 1))

\* C3: the Date column has exactly 48 entries, starts on 2025-09-01, holds
\* only Monday-to-Friday dates, each the business day after its predecessor,
\* and each of the four series has 48 entries too.
C3_BusinessDays ==
    \A c \in DOMAIN returned :
        LET f == returned[c].data
        IN  /\ Len(f.Date) = 48
            /\ f.Date[1] = Date(2025, 9, 1)
            /\ \A k \in DOMAIN f.Date : weekday(f.Date[k]) \in 0..4
            /\ \A k \in 1..(Len(f.Date) - 1) :
                  /\ ordinal(f.Date[k]) < ordinal(f.Date[k + 1])
                  /\ f.Date[k + 1] = NextBusinessDay(f.Date[k])
            /\ \A k \in DOMAIN SeriesNames : Len(f[SeriesNames[k]]) = Len(f.Date)

C3_Witness ==
    /\ returned # << >>
    /\ \E k \in DOMAIN returned[1].data.Date :
          /\ weekday(returned[1].data.Date[k]) = 4
          /\ k < Len(returned[1].data.Date)
          /\ weekday(returned[1].data.Date[k + 1]) = 0

IsTable(e) == e.op = "dataframe"

\* (a - b) / b in percent, rounded to the nearest whole number
RoundedPercentOver(a, b) ==
    LET x == a.m * Pow10(b.e)
        y == b.m * Pow10(a.e)
    IN  (200 * (x - y) + y) \div (2 * y)

\* C4: in every row of the comparison table the Outperformance percentage
\* is (Our Algorithm - Best Traditional) / Best Traditional, rounded to the
\* nearest whole percent.
C4_OutperformanceRows ==
    \A i \in Indices(out, IsTable) :
        LET t == out[i].val.cols
        IN  /\ Len(t["Metric"]) = 5
            /\ \A r \in DOMAIN t["Metric"] :
                  DecEq(t["Outperformance"][r],
                        Dec(RoundedPercentOver(t["Our Algorithm"][r],
                                               t["Best Traditional"][r]), 0))

C4_Witness ==
    \E i \in Indices(out, IsTable) :
        /\ out[i].val.cols["Metric"][5] = "Sharpe Ratio"
        /\ out[i].val.cols["Outperformance"][5] = Dec(367, 0)

\* what an emitted element is on the page; layout covers the page
\* configuration, the style block, headings, column directives and rules
Kind(e) ==
    CASE e.op = "markdown" /\ e.cls = "main-header"         -> "header"
      [] e.op = "markdown" /\ e.cls = "metric-card"         -> "kpi"
      [] e.op = "markdown" /\ e.cls = "feature-card"        -> "text"
      [] e.op = "markdown" /\ e.cls = "highlight-box"       -> "text"
      [] e.op = "markdown" /\ e.cls = "confidential-footer" -> "footer"
      [] e.op = "write"                                     -> "text"
      [] e.op = "plotly_chart"                              -> "chart"
      [] e.op = "dataframe"                                 -> "table"
      [] OTHER                                              -> "layout"

IsHeading(e) == e.op \in {"header", "subheader"}
IsContent(e) == Kind(e) # "layout"
IsChart(e)   == e.op = "plotly_chart"
OfKind(k)    == {i \in DOMAIN out : Kind(out[i]) = k}

\* the heading an element stands under: the last st.header or st.subheader
\* emitted before it
HeadingOf(i) ==
    LET H == {j \in Indices(out, IsHeading) : j < i}
    IN  IF H = {} THEN "" ELSE out[CHOOSE j \in H : \A k \in H : k <= j].label

SectionOf(i) == <<Kind(out[i]), HeadingOf(i)>>

\* the sections of the page in order: kind and heading of the content
\* elements, a run of equal ones counted once
Sections ==
    LET C      == Indices(out, IsContent)
        Starts == {i \in C : \/ Rank(C, i) = 1
                             \/ SectionOf(Nth(C, Rank(C, i) - 1)) # SectionOf(i)}
    IN  [k \in 1..Cardinality(Starts) |-> SectionOf(Nth(Starts, k))]

ChartTitles ==
    LET C == Indices(out, IsChart)
    IN  [k \in 1..Cardinality(C) |-> out[Nth(C, k)].val.title]

ExpectedSections ==
    <<<<"header", "">>,
      <<"kpi", "">>,
      <<"chart", "Systematic outperformance across all metrics">>,
      <<"table", "Performance Comparison">>,
      <<"text", "Proprietary Algorithmic Framework">>,
      <<"text", "HEDGING STRATEGY ADVANTAGES">>,
      <<"chart", "Multi-layered protection through strategic hedging">>,
      <<"text", "Risk Control Framework">>,
      <<"text", "Exclusive access to algorithmic excellence">>,
      <<"footer", "Exclusive access to algorithmic excellence">>>>

ExpectedCharts ==
    <<"Cumulative Performance Comparison (Sep - Nov 2025)",
      "Maximum Drawdown Comparison",
      "Risk Profile Assessment">>

Finished == pc = Done /\ ~raised

\* C5: a run emits the header, four KPI cards, the performance chart, the
\* comparison table, the methodology and advantage blocks, the drawdown and
\* the risk chart, the risk-control grid, the investment blocks and the
\* footer, in this order: 4 KPI blocks, 3 charts, 1 table, 1 footer, and
\* the footer is the last element.
C5_SectionOrder ==
    /\ IsPrefix(Sections, ExpectedSections)
    /\ IsPrefix(ChartTitles, ExpectedCharts)
    /\ Finished =>
          /\ Sections = ExpectedSections
          /\ ChartTitles = ExpectedCharts
          /\ Cardinality(OfKind("header")) = 1
          /\ Cardinality(OfKind("kpi")) = 4
          /\ Cardinality(OfKind("chart")) = 3
          /\ Cardinality(OfKind("table")) = 1
          /\ Cardinality(OfKind("footer")) = 1
          /\ Kind(Last(out)) = "footer"

C5_Witness ==
    /\ Finished
    /\ Cardinality(OfKind("text")) = 21
    /\ Kind(Last(out)) = "footer"

ExpectedCalls ==
    <<"generate_performance_data", "create_performance_chart",
      "create_drawdown_chart", "create_risk_radar_chart">>

Builders == {"create_performance_chart", "create_drawdown_chart",
             "create_risk_radar_chart"}

IsBuilderCall(c) == c \in Builders

\* C6: in one run the generator and the three chart builders are called
\* once each, in the order generator, performance chart, drawdown chart,
\* risk chart; a chart is embedded only after its builder has returned it.
C6_OnceEachInOrder ==
    /\ IsPrefix(calls, ExpectedCalls)
    /\ Finished => calls = ExpectedCalls
    /\ performance_fig # None => performance_data # None
    /\ Cardinality(Indices(out, IsChart)) <= Cardinality(Indices(calls, IsBuilderCall))
    /\ \A i \in Indices(out, IsChart) : out[i].val.kind = "figure"

C6_Witness ==
    /\ Finished
    /\ run = 2
    /\ calls = ExpectedCalls
    /\ Cardinality(Indices(out, IsChart)) = 3

\* C7 as stated: after the run the global generator is in the state it was
\* in before the run.
C7_GeneratorRestored ==
    pc = Done => rng = rngAtStart

\* C7 amended: the run leaves the global generator in one fixed state, the
\* one reached by seeding and drawing the four series, whatever its state
\* was before the run.
C7_GeneratorLeftSeeded ==
    Finished =>
        \A x \in RngStates :
            (x.mult = rng.mult /\ x.inc = rng.inc) =>
                generate_performance_data(x).rng = rng

C7_Witness ==
    /\ Finished
    /\ rng # rngAtStart
    /\ returned # << >>
    /\ Last(returned).before = rngAtStart

\* C8: the performance chart builder does not raise on the generator's
\* frame and returns four traces named Our Algorithm, Bank Nifty, Nifty
\* Index, Mutual Funds, in this order; the columns it reads are columns of
\* the frame, and the frame stays as the generator returned it.
C8_ChartFromFrame ==
    /\ ~raised
    /\ "create_performance_chart" \in {calls[i] : i \in DOMAIN calls} =>
          /\ performance_fig # None
          /\ [i \in DOMAIN performance_fig.traces |-> performance_fig.traces[i].name]
                = <<"Our Algorithm", "Bank Nifty", "Nifty Index", "Mutual Funds">>
          /\ {"Date", "Our_Algorithm", "Bank_Nifty", "Nifty_Index", "Mutual_Funds"}
                \subseteq DOMAIN performance_data
          /\ performance_data = Last(returned).data
          /\ \A i \in DOMAIN performance_fig.traces :
                /\ performance_fig.traces[i].x = performance_data.Date
                /\ performance_fig.traces[i].y = performance_data[SeriesNames[i]]

C8_Witness ==
    /\ run = 2
    /\ performance_fig # None
    /\ Len(performance_fig.traces) = 4
    /\ Len(returned) = 2
    /\ performance_data = Last(returned).data

IsPageConfig(e) == e.op = "set_page_config"
IsStyle(e)      == e.op = "markdown" /\ e.cls = "style"

\* C9: in every run the page configuration is the first call into the
\* display host and is made once, the style block is the second call, and
\* everything main() emits comes after both.
C9_ConfigThenStyle ==
    /\ pc > 1 => out # << >>
    /\ \A i \in DOMAIN out :
          /\ IsPageConfig(out[i]) <=> i = 1
          /\ IsStyle(out[i]) <=> i = 2
          /\ IsContent(out[i]) => i > 2

C9_Witness ==
    /\ Finished
    /\ run = 2
    /\ IsPageConfig(out[1])
    /\ IsStyle(out[2])
    /\ Kind(out[3]) = "header"

Kpi(label) ==
    out[CHOOSE i \in OfKind("kpi") : out[i].label = label].val

Cell(column, metric) ==
    LET t == out[CHOOSE i \in OfKind("table") : TRUE].val.cols
        r == CHOOSE k \in DOMAIN t["Metric"] : t["Metric"][k] = metric
    IN  t[column][r]

Headlines == {out[i].val : i \in {j \in DOMAIN out : out[j].cls \in {"main-header", "highlight-box"}}}

\* a / b to two decimals, times 100
RatioTimes100(a, b) == (200 * a + b) \div (2 * b)

\* C10: the figures written in more than one place agree: the strategy
\* target with the Total Returns card and table cell, the best benchmark
\* target with the table, the daily means with the Daily Average row, the
\* cards with the Our Algorithm column, the headline 564% with the table's
\* Total Returns outperformance, and target / best target is 6.64.
C10_FiguresAgree ==
    Finished =>
        /\ DecEq(Kpi("Total Returns"), Dec(Params.Our_Algorithm.target, 0))
        /\ DecEq(Cell("Our Algorithm", "Total Returns"), Dec(Params.Our_Algorithm.target, 0))
        /\ DecEq(Cell("Best Traditional", "Total Returns"), Dec(Params.Bank_Nifty.target, 0))
        /\ DecEq(Cell("Our Algorithm", "Daily Average"), Dec(Params.Our_Algorithm.mu, 0))
        /\ DecEq(Cell("Best Traditional", "Daily Average"), Dec(Params.Bank_Nifty.mu, 0))
        /\ DecEq(Kpi("Win Rate"), Cell("Our Algorithm", "Win Rate"))
        /\ DecEq(Kpi("Annualized Return"), Cell("Our Algorithm", "Annualized Return"))
        /\ DecEq(Kpi("Sharpe Ratio"), Cell("Our Algorithm", "Sharpe Ratio"))
        /\ DecEq(Kpi("Win Rate"), Dec(625, 1))
        /\ DecEq(Kpi("Annualized Return"), Dec(1868, 1))
        /\ DecEq(Kpi("Sharpe Ratio"), Dec(420, 2))
        /\ \A h \in Headlines :
              /\ DecEq(h, Dec(564, 0))
              /\ DecEq(h, Cell("Outperformance", "Total Returns"))
        /\ RatioTimes100(Params.Our_Algorithm.target, Params.Bank_Nifty.target) = 664
        /\ Last(Last(returned).data.Our_Algorithm) = Number(Kpi("Total Returns").m)

C10_Witness ==
    /\ Finished
    /\ Cardinality(Headlines) = 1
    /\ Cardinality(OfKind("kpi")) = 4
    /\ Cardinality(OfKind("table")) = 1

====
